---- MODULE Spec2Model ----
(***************************************************************************)
(* State-machine model of the RoastBot response engine.  The repository    *)
(* holds several variants of the bot; each is modelled by a specification  *)
(* of its own over the shared variables:                                   *)
(*   SpecWindow    in-memory sliding-window rate limiter and maintenance   *)
(*                 (src/unnamed/part_002)                                  *)
(*   SpecCounter   storage-counter rate limiter (src/index.ts)             *)
(*   SpecChat      mood, memory and cooldown of handleMessage (src/index.ts)*)
(*   SpecRoast     validation, rate limit, analysis, response and metrics  *)
(*                 of handleMessage (src/unnamed/part_002)                 *)
(*   SpecAssistant validation, response and stored history of              *)
(*                 handleMessage (src/roastbot2.ts)                        *)
(*   SpecProfile   cached and stored user profiles (src/unnamed/part_004)  *)
(*   SpecSession   SpecRoast with disconnect() (src/unnamed/part_002)      *)
(*   SpecSelect    the trait selections of src/index.ts and part_002       *)
(*   SpecSentiment the sentiment analyses of src/index.ts and part_004     *)
(*   SpecThrottle  SpecRoast for one user who sends more messages than the *)
(*                 window admits (src/unnamed/part_002)                    *)
(*   SpecHistory   SpecAssistant for one user who sends more messages than *)
(*                 the stored history keeps (src/roastbot2.ts)             *)
(* Times are milliseconds, as Date.now() gives them.  Fractional numbers   *)
(* (sentiment, mood, trait bounds) are kept in tenths.                     *)
(***************************************************************************)
EXTENDS Integers, Sequences, FiniteSets, TLC

\* ------------------------------------------------------------------ bounds
Users == {"u1", "u2"}
\* Date.now() when the bot is constructed.
StartTime == 1000
\* The requests the second user makes per window, counter key or instant (the
\* first user makes enough of them to reach every limit).
MaxOtherRequests == 1
\* The calls of one asynchronous method that may be in flight together.
CallIds == {1, 2}
\* Storage operations that may fail in one run.
MaxFaults == 1
\* The counter under ratelimit:{userId} is not incremented beyond this.
MaxCounter == 6
\* The calls the first user makes at one instant.
MaxBurstCalls == 6
\* The messages the mood bot analyses in one run.
MaxInteractions == 2
\* The valid messages the roast bot handles in one run.
MaxMessages == 2

\* --------------------------------------------------------------- variables
VARIABLES
    now,          \* Date.now()
    rateLimits,   \* part_002: Map<string, number[]>
    lastCheck,    \* the latest checkRateLimit call: user and result
    admitted,     \* history: per user, the admitted requests of the trailing window
    redisCount,   \* storage: the integer under ratelimit:{userId} (0: no such key)
    redisExpireAt,\* storage: when that key expires (0: no expiry set)
    rlCalls,      \* index.ts: the checkRateLimit calls in flight
    faults,       \* history: storage operations that have failed
    moodLevel,    \* index.ts: state.moodLevel, in tenths
    cooldowns,    \* index.ts: state.cooldowns, Map<string, number>
    memory,       \* index.ts: state.memory {shortTerm, longTerm, context}
    traitLevels,  \* index.ts: the level of each trait of state.personality, in tenths
    chatCalls,    \* index.ts: the handleMessage calls in flight
    burstCalls,   \* history: per user, the calls made at the current instant
    lastReply,    \* history: the latest value a handleMessage call returned, and which
                  \* call of its user's burst returned it
    roastCalls,   \* part_002: the handleMessage calls in flight
    metrics,      \* part_002: state.metrics
    connected,    \* part_002: the storage connection is open and the maintenance
                  \* timer runs (until cleanup())
    roastLog,     \* history: the handleMessage call of part_002 that returned in the
                  \* latest step, if one did
    history,      \* roastbot2.ts storage: the list under history:{userId}, newest first
    assistCalls,  \* roastbot2.ts: the handleMessage calls in flight
    assistLog,    \* history: the handleMessage call of roastbot2.ts that returned in
                  \* the latest step, if one did
    userProfiles, \* part_004: the cache, Map<string, UserProfile>
    storedProfiles, \* part_004 storage: the JSON text under user:{userId} and its expiry
    profileCalls, \* part_004: the getUserProfile calls in flight
    lastProfile,  \* history: per user, the profile the latest returned call gave, if any
    profileLog,   \* history: the getUserProfile call that returned in the latest step
    writtenProfiles, \* history: per user, the profile object last written to storage
    selection     \* the latest trait selection or sentiment analysis: what it was
                  \* given and what it returned

limitVars == <<lastCheck, admitted>>
windowVars == <<rateLimits>>
counterVars == <<redisCount, redisExpireAt, rlCalls, faults>>
chatVars == <<moodLevel, cooldowns, memory, traitLevels, chatCalls, burstCalls>>
roastVars == <<roastCalls, metrics, roastLog, connected>>
assistVars == <<history, assistCalls, assistLog>>
profileVars == <<userProfiles, storedProfiles, profileCalls, lastProfile, profileLog,
                 writtenProfiles>>
selectVars == <<selection>>
vars == <<now, limitVars, windowVars, counterVars, chatVars, lastReply, roastVars,
          assistVars, profileVars, selectVars>>

\* What the actions of each specification leave alone.
outsideWindow == <<counterVars, chatVars, lastReply, roastVars, assistVars, profileVars,
                   selectVars>>
outsideCounter == <<windowVars, chatVars, lastReply, roastVars, assistVars, profileVars,
                    selectVars>>
outsideChat == <<limitVars, windowVars, counterVars, roastVars, assistVars, profileVars,
                 selectVars>>
outsideRoast == <<counterVars, chatVars, lastReply, assistVars, profileVars, selectVars>>
outsideAssistant == <<limitVars, windowVars, counterVars, chatVars, lastReply, roastVars,
                      profileVars, selectVars>>
outsideProfile == <<limitVars, windowVars, counterVars, chatVars, lastReply, roastVars,
                    assistVars, selectVars>>
outsideSelect == <<now, limitVars, windowVars, counterVars, chatVars, lastReply, roastVars,
                   assistVars, profileVars>>

\* ------------------------------------------------------------ map helpers
MapGet(m, k, default) == IF k \in DOMAIN m THEN m[k] ELSE default
MapSet(m, k, v) == [x \in DOMAIN m \cup {k} |-> IF x = k THEN v ELSE m[x]]
MapDelete(m, k) == [x \in DOMAIN m \ {k} |-> m[x]]
EmptyMap == [x \in {} |-> <<>>]

NoCheck == [user |-> "", result |-> "none"]

\* ================= storage-counter rate limiter (index.ts) ================
\* const limit = 5; // messages per minute
CounterLimit == 5
\* this.redis.expire(key, 60)
CounterExpirySeconds == 60

IdleCall == [user |-> "", pc |-> "idle", count |-> 0, at |-> 0]

InitLimit ==
    /\ lastCheck = NoCheck
    /\ admitted = [u \in Users |-> <<>>]

InitCounter ==
    /\ redisCount = [u \in Users |-> 0]
    /\ redisExpireAt = [u \in Users |-> 0]
    /\ rlCalls = [c \in CallIds |-> IdleCall]
    /\ faults = 0

\* A value handleMessage returns: a text (a sequence of pieces), or null.
TextReply(user, ordinal, text) ==
    [kind |-> "text", user |-> user, ordinal |-> ordinal, text |-> text]
NullReply(user, ordinal) ==
    [kind |-> "null", user |-> user, ordinal |-> ordinal, text |-> <<>>]
NoReply == [kind |-> "none", user |-> "", ordinal |-> 0, text |-> <<>>]

IdleChat == [user |-> "", pc |-> "idle", content |-> <<>>, sentiment |-> 0,
             topics |-> {}, ordinal |-> 0]

\* index.ts lines 133-169: the initial state of the bot.
InitChat ==
    /\ moodLevel = 0
    /\ cooldowns = EmptyMap
    /\ memory = [shortTerm |-> <<>>, longTerm |-> EmptyMap, context |-> <<>>]
    /\ traitLevels = [sarcasm |-> 8, wit |-> 7]
    /\ chatCalls = [c \in CallIds |-> IdleChat]
    /\ burstCalls = [u \in Users |-> 0]

\* A message content: its words, followed by a run of pad filler characters.
EmptyContent == [words |-> <<>>, pad |-> 0]

\* getFallbackAnalysis (part_002 lines 267-278): the fields the bot uses.
FallbackAnalysis == [sentiment |-> 0, topics |-> <<>>]

\* A handleMessage call of part_002; startedOpen: the connection was open when
\* the call began.
IdleRoast == [user |-> "", pc |-> "idle", content |-> EmptyContent,
              analysed |-> "none", analysis |-> FallbackAnalysis, trait |-> "",
              generated |-> "none", response |-> <<>>, backendCalls |-> 0,
              generateCalls |-> 0, startedOpen |-> TRUE]
NoRoast == [user |-> "", outcome |-> "none", content |-> EmptyContent,
            analysed |-> "none", analysis |-> FallbackAnalysis, trait |-> "",
            generated |-> "none", response |-> <<>>, backendCalls |-> 0,
            generateCalls |-> 0, reply |-> <<>>, maintenance |-> "none"]

\* initializeState (part_002 lines 182-198)
InitRoast ==
    /\ roastCalls = [c \in CallIds |-> IdleRoast]
    /\ metrics = [totalInteractions |-> 0, activeUsers |-> {}, mostCommonTopics |-> EmptyMap]
    /\ roastLog = NoRoast
    /\ connected = TRUE

IdleAssist == [user |-> "", pc |-> "idle", content |-> EmptyContent, context |-> <<>>,
               historyRead |-> "none", generated |-> "none", response |-> <<>>]
NoAssist == [user |-> "", outcome |-> "none", content |-> EmptyContent, context |-> <<>>,
             generated |-> "none", reply |-> <<>>]

\* roastbot2.ts lines 37-45: the constructor; storage holds no history yet.
InitAssistant ==
    /\ history = [u \in Users |-> <<>>]
    /\ assistCalls = [c \in CallIds |-> IdleAssist]
    /\ assistLog = NoAssist

IdleProfile == [user |-> "", pc |-> "idle", before |-> {}]
NoProfile == [user |-> "", path |-> "none", before |-> {}, returned |-> {}]

\* part_004 line 248 and the constructor: the cache is empty, no call is in flight.
InitProfile ==
    /\ userProfiles = EmptyMap
    /\ profileCalls = [c \in CallIds |-> IdleProfile]
    /\ lastProfile = [u \in Users |-> {}]
    /\ profileLog = NoProfile

\* No trait has been selected yet.
NoSelection == [by |-> "none", input |-> 0, trait |-> ""]

\* The state after construction, but for what storage holds of the user profiles.
InitBot ==
    /\ selection = NoSelection
    /\ now = StartTime
    /\ InitLimit
    /\ rateLimits = EmptyMap
    /\ InitCounter
    /\ InitChat
    /\ lastReply = NoReply
    /\ InitRoast
    /\ InitAssistant
    /\ InitProfile

\* The state after construction over a storage without user profiles.
InitAll ==
    /\ InitBot
    /\ storedProfiles = EmptyMap
    /\ writtenProfiles = EmptyMap

\* ===================== in-memory sliding window (part_002) ===============
MAX_REQUESTS_PER_MINUTE == 50
RATE_LIMIT_WINDOW == 60000

\* The instants the clock takes: the start, and both sides of the window's edge.
WindowInstants == {StartTime, StartTime + 1, StartTime + RATE_LIMIT_WINDOW,
                   StartTime + RATE_LIMIT_WINDOW + 1}

\* userRequests.filter(time => now - time < CONFIG.RATE_LIMIT_WINDOW)
RecentRequests(requests, t) ==
    SelectSeq(requests, LAMBDA time : t - time < RATE_LIMIT_WINDOW)

\* recentRequests.length >= CONFIG.MAX_REQUESTS_PER_MINUTE
OverLimit(recentRequests) == Len(recentRequests) >= MAX_REQUESTS_PER_MINUTE

\* this.rateLimits.get(userId) || []
UserRequestsOfFirstUser(userId) == MapGet(rateLimits, "u1", <<>>)
UserRequests(userId) == MapGet(rateLimits, userId, <<>>)

\* checkRateLimit(userId): no await inside, so one atomic step.
CheckRateLimitCountingRejected(userId) ==
    LET userRequests == MapGet(rateLimits, userId, <<>>)
        recentRequests == RecentRequests(userRequests, now)
    IN  /\ rateLimits' = MapSet(rateLimits, userId, Append(recentRequests, now))
        /\ IF OverLimit(recentRequests)
           THEN /\ lastCheck' = [user |-> userId, result |-> "reject"]
                /\ UNCHANGED admitted
           ELSE /\ lastCheck' = [user |-> userId, result |-> "admit"]
                /\ admitted' = [admitted EXCEPT ![userId] = Append(@, now)]
CheckRateLimit(userId) ==
    LET userRequests == UserRequests(userId)
        recentRequests == RecentRequests(userRequests, now)
    IN  IF OverLimit(recentRequests)
        THEN /\ lastCheck' = [user |-> userId, result |-> "reject"]
             /\ UNCHANGED <<rateLimits, admitted>>
        ELSE /\ rateLimits' = MapSet(rateLimits, userId, Append(recentRequests, now))
             /\ lastCheck' = [user |-> userId, result |-> "admit"]
             /\ admitted' = [admitted EXCEPT ![userId] = Append(@, now)]

WindowCheck ==
    /\ \E userId \in Users :
          /\ userId # "u1" => Len(MapGet(rateLimits, userId, <<>>)) < MaxOtherRequests
          /\ CheckRateLimit(userId)
    /\ UNCHANGED <<now, outsideWindow>>

\* One user's entry after the maintenance loop body.
RECURSIVE MaintainAll(_, _, _)
MaintainAllKeepingEmpty(m, keys, t) ==
    [userId \in DOMAIN m |-> RecentRequests(m[userId], t)]
MaintainAll(m, keys, t) ==
    IF keys = {} THEN m
    ELSE LET userId == CHOOSE k \in keys : TRUE
             validTimestamps == RecentRequests(m[userId], t)
             m2 == IF Len(validTimestamps) = 0
                   THEN MapDelete(m, userId)
                   ELSE MapSet(m, userId, validTimestamps)
         IN  MaintainAll(m2, keys \ {userId}, t)

\* performMaintenance(): the pruning loop runs without an await.
PerformMaintenance ==
    /\ rateLimits' = MaintainAll(rateLimits, DOMAIN rateLimits, now)
    /\ UNCHANGED <<now, lastCheck, admitted, outsideWindow>>

\* The clock moves to a later instant; the history keeps the trailing window.
WindowTick ==
    /\ \E t \in WindowInstants :
          /\ t > now
          /\ now' = t
          /\ admitted' = [u \in Users |-> RecentRequests(admitted[u], t)]
    /\ UNCHANGED <<rateLimits, lastCheck, outsideWindow>>

WindowInit == InitAll
WindowNext == WindowCheck \/ PerformMaintenance \/ WindowTick
SpecWindow == WindowInit /\ [][WindowNext]_vars

\* Sliding window: the requests admitted in the trailing window never exceed the maximum.
WindowNeverExceedsMax ==
    \A u \in Users : Len(admitted[u]) <= MAX_REQUESTS_PER_MINUTE

\* ================= storage-counter rate limiter (index.ts) ================
\* The instants the clock takes: the start, and both sides of the key's expiry.
CounterInstants == {StartTime, StartTime + CounterExpirySeconds * 1000 - 1,
                    StartTime + CounterExpirySeconds * 1000}

\* redis INCR: a missing key counts from 0.
RedisIncr(count) == count + 1
\* redis EXPIRE key seconds: the key is gone `seconds` later; no effect on a missing key.
RedisExpire(count, expireAt, t, seconds) ==
    IF count = 0 THEN expireAt ELSE t + seconds * 1000

\* return count <= limit
CounterAdmits(count) == count <= CounterLimit

\* The call returns (or throws): its result is recorded and the call slot is free.
\* A request counts at the time `at` storage counted it (or failed to).
FinishCheck(c, at, result) ==
    LET userId == rlCalls[c].user
    IN  /\ rlCalls' = [rlCalls EXCEPT ![c] = IdleCall]
        /\ lastCheck' = [user |-> userId, result |-> result]
        /\ admitted' = IF result = "admit"
                       THEN [admitted EXCEPT ![userId] = RecentRequests(Append(@, at), now)]
                       ELSE admitted

ResultOf(count) == IF CounterAdmits(count) THEN "admit" ELSE "reject"

\* checkRateLimit(userId) is called: incrementCounter(key) is awaited.
CounterStart ==
    /\ \E c \in CallIds, userId \in Users :
          /\ rlCalls[c].pc = "idle"
          /\ \A d \in CallIds : d < c => rlCalls[d].pc # "idle"
          /\ redisCount[userId] < (IF userId = "u1" THEN MaxCounter ELSE MaxOtherRequests)
          /\ rlCalls' = [rlCalls EXCEPT ![c] = [IdleCall EXCEPT !.user = userId, !.pc = "incr"]]
    /\ UNCHANGED <<now, limitVars, redisCount, redisExpireAt, faults, outsideCounter>>

\* incrementCounter: await this.redis.incr(key) succeeds.  A count other than 1
\* is returned at once and decides the check.
CounterIncr ==
    /\ \E c \in CallIds :
          /\ rlCalls[c].pc = "incr"
          /\ LET userId == rlCalls[c].user
                 count == RedisIncr(redisCount[userId])
             IN  /\ redisCount' = [redisCount EXCEPT ![userId] = count]
                 /\ IF count = 1
                    THEN /\ rlCalls' = [rlCalls EXCEPT ![c].pc = "expire", ![c].count = count,
                                                    ![c].at = now]
                         /\ UNCHANGED limitVars
                    ELSE FinishCheck(c, now, ResultOf(count))
    /\ UNCHANGED <<now, redisExpireAt, faults, outsideCounter>>

\* incrementCounter: await this.redis.expire(key, 60) succeeds for count 1, and
\* checkRateLimit goes on to its own expire.
CounterExpire ==
    /\ \E c \in CallIds :
          /\ rlCalls[c].pc = "expire"
          /\ LET userId == rlCalls[c].user
             IN  redisExpireAt' = [redisExpireAt EXCEPT ![userId] =
                     RedisExpire(redisCount[userId], @, now, CounterExpirySeconds)]
          /\ rlCalls' = [rlCalls EXCEPT ![c].pc = "expireAgain"]
    /\ UNCHANGED <<now, limitVars, redisCount, faults, outsideCounter>>

\* incrementCounter: incr or expire throws; the catch logs and returns 0, and
\* checkRateLimit returns 0 <= limit.
CounterStorageFault ==
    /\ \E c \in CallIds :
          /\ rlCalls[c].pc \in {"incr", "expire"}
          /\ faults < MaxFaults
          /\ FinishCheck(c, now, ResultOf(0))
    /\ faults' = faults + 1
    /\ UNCHANGED <<now, redisCount, redisExpireAt, outsideCounter>>

\* checkRateLimit: if (count === 1) await this.redis.expire(key, 60) succeeds.
CounterExpireAgain ==
    /\ \E c \in CallIds :
          /\ rlCalls[c].pc = "expireAgain"
          /\ LET userId == rlCalls[c].user
             IN  redisExpireAt' = [redisExpireAt EXCEPT ![userId] =
                     RedisExpire(redisCount[userId], @, now, CounterExpirySeconds)]
          /\ FinishCheck(c, rlCalls[c].at, ResultOf(rlCalls[c].count))
    /\ UNCHANGED <<now, redisCount, faults, outsideCounter>>

\* checkRateLimit: its own expire throws; nothing catches it.
CounterExpireAgainFault ==
    /\ \E c \in CallIds :
          /\ rlCalls[c].pc = "expireAgain"
          /\ faults < MaxFaults
          /\ FinishCheck(c, rlCalls[c].at, "throw")
    /\ faults' = faults + 1
    /\ UNCHANGED <<now, redisCount, redisExpireAt, outsideCounter>>

\* A key whose expiry has come no longer exists.
ExpireKeys(counts, expireAts, t) ==
    [u \in Users |-> IF expireAts[u] # 0 /\ expireAts[u] <= t THEN 0 ELSE counts[u]]
ExpireTimes(expireAts, t) ==
    [u \in Users |-> IF expireAts[u] # 0 /\ expireAts[u] <= t THEN 0 ELSE expireAts[u]]

\* The clock moves to a later instant; storage drops the keys that expired.
CounterTick ==
    /\ \E t \in CounterInstants :
          /\ t > now
          /\ now' = t
          /\ redisCount' = ExpireKeys(redisCount, redisExpireAt, t)
          /\ redisExpireAt' = ExpireTimes(redisExpireAt, t)
          /\ admitted' = [u \in Users |-> RecentRequests(admitted[u], t)]
    /\ UNCHANGED <<lastCheck, rlCalls, faults, outsideCounter>>

CounterInit == InitAll
CounterNext ==
    \/ CounterStart \/ CounterIncr \/ CounterExpire \/ CounterStorageFault
    \/ CounterExpireAgain \/ CounterExpireAgainFault \/ CounterTick
SpecCounter == CounterInit /\ [][CounterNext]_vars

\* C1: for every user, the requests admitted inside any trailing 60-second window
\* never exceed the configured maximum.  Stated for the storage-counter variant
\* (maximum 5) in the runs most favourable to it: while no storage operation has
\* failed, so that no request was admitted by failing open.
C1_CounterNeverExceedsLimit ==
    \A u \in Users : faults = 0 => Len(admitted[u]) <= CounterLimit

\* ======================= mood and cooldown bot (index.ts) =================
cooldownDuration == 30000
maxMoodLevel == 10
minMoodLevel == -10

\* The instants the clock takes: the start, and both sides of the cooldown's end.
ChatInstants == {StartTime, StartTime + cooldownDuration - 1, StartTime + cooldownDuration}

\* A message content is the sequence of its words, as content.split(' ') gives them.
Repeat(word, n) == [i \in 1..n |-> word]
ChatContents == {Repeat("great", 21), Repeat("awful", 21), <<"nice", "code">>,
                 <<"!mood">>, <<"!stats">>}
UserName == [u \in Users |-> IF u = "u1" THEN "Ann" ELSE "Bob"]

\* The words that start with state.commandPrefix, '!'.
PrefixedWords == {"!mood", "!stats", "!dance"}
StartsWithPrefix(content) == Len(content) > 0 /\ content[1] \in PrefixedWords

\* The topic words a piece of text contains (String.includes).
Mentions(piece) ==
    CASE piece = "code" -> {"code"}
      [] piece = "Your code is like a mystery novel, " -> {"code"}
      [] OTHER -> {}
TextIncludes(text, needle) == \E i \in 1..Len(text) : needle \in Mentions(text[i])

\* state.personality (lines 143-160): the response templates of each trait, a
\* text being the sequence of its pieces (emoji left out).
ChatTraitNames == <<"sarcasm", "wit">>
ChatResponses ==
    [sarcasm |-> << <<"Oh wow, ", "{userName}", ", that's *totally* genius...">>,
                    <<"Brilliant observation, ", "{userName}",
                      ". Did you figure that out all by yourself?">> >>,
     wit     |-> << <<"I'd explain it to you, ", "{userName}",
                      ", but I'm all out of crayons.">>,
                    <<"Your code is like a mystery novel, ", "{userName}",
                      "... full of bad practices and plot holes.">> >>]

\* String.replace(pattern, value) with a string pattern: the first occurrence only.
ReplaceFirst(text, pattern, value) ==
    IF \E i \in 1..Len(text) : text[i] = pattern
    THEN LET first == CHOOSE i \in 1..Len(text) :
                          /\ text[i] = pattern
                          /\ \A j \in 1..(i - 1) : text[j] # pattern
         IN  [text EXCEPT ![first] = value]
    ELSE text

\* analyzeSentiment (lines 266-280): 0.5 for each positive word, -0.5 for each negative one.
positiveWords == {"good", "great", "awesome", "nice", "love"}
negativeWords == {"bad", "terrible", "hate", "awful", "worst"}
RECURSIVE AnalyzeSentiment(_)
AnalyzeSentiment(words) ==
    IF words = <<>> THEN 0
    ELSE (IF Head(words) \in positiveWords THEN 5 ELSE 0)
         - (IF Head(words) \in negativeWords THEN 5 ELSE 0)
         + AnalyzeSentiment(Tail(words))

\* extractTopics (lines 484-487)
TopicWords == {"code", "bug", "feature", "error", "testing", "deployment"}
ExtractTopics(content) == {topic \in TopicWords : TextIncludes(content, topic)}

\* analyzeContext (lines 369-377): the topics pushed onto memory.context, in list order.
ContextTopics == <<"coding", "debugging", "testing", "deployment">>
AnalyzeContext(context, content) ==
    context \o SelectSeq(ContextTopics, LAMBDA topic : TextIncludes(content, topic))

\* updateMood (lines 305-313): Math.max(min, Math.min(max, moodLevel + sentiment))
Min(a, b) == IF a < b THEN a ELSE b
Max(a, b) == IF a > b THEN a ELSE b
UpdateMoodUnclamped(mood, sentiment) == mood + sentiment
UpdateMood(mood, sentiment) ==
    Max(minMoodLevel * 10, Min(maxMoodLevel * 10, mood + sentiment))

\* updateMemory (lines 354-367)
UpdateMemory(mem, content, userName) ==
    LET pushed == Append(mem.shortTerm, content)
        shortTerm == IF Len(pushed) > 10 THEN Tail(pushed) ELSE pushed
        currentCount == MapGet(mem.longTerm, userName, 0)
    IN  [shortTerm |-> shortTerm,
         longTerm |-> MapSet(mem.longTerm, userName, currentCount + 1),
         context |-> AnalyzeContext(mem.context, content)]

\* learn (lines 315-322): learningRate 0.1 for a trait one of whose responses
\* includes one of the topics.
Learn(levels, topics) ==
    [name \in DOMAIN levels |->
        IF \E topic \in topics :
              \E r \in 1..Len(ChatResponses[name]) : TextIncludes(ChatResponses[name][r], topic)
        THEN levels[name] + 1
        ELSE levels[name]]

\* selectPersonalityTrait (lines 298-303)
SelectTraitByMoodInclusive(mood) ==
    LET moodFactor == IF mood >= 0 THEN "wit" ELSE "sarcasm"
    IN  IF \E i \in 1..Len(ChatTraitNames) : ChatTraitNames[i] = moodFactor
        THEN moodFactor
        ELSE ChatTraitNames[1]
SelectTraitByMood(mood) ==
    LET moodFactor == IF mood > 0 THEN "wit" ELSE "sarcasm"
    IN  IF \E i \in 1..Len(ChatTraitNames) : ChatTraitNames[i] = moodFactor
        THEN moodFactor
        ELSE ChatTraitNames[1]

\* applyMoodModifier (lines 507-514); " :D" and " >:(" stand for the two emoji.
ApplyMoodModifierInclusive(response, mood) ==
    IF mood >= 5 * 10 THEN Append(response, " :D")
    ELSE IF mood <= -5 * 10 THEN Append(response, " >:(")
    ELSE response
ApplyMoodModifier(response, mood) ==
    IF mood > 5 * 10 THEN Append(response, " :D")
    ELSE IF mood < -5 * 10 THEN Append(response, " >:(")
    ELSE response

\* generateResponse (lines 282-296) with the template getRandomResponse drew.
GenerateResponse(userName, mood, index) ==
    LET trait == SelectTraitByMood(mood)
        response == ApplyMoodModifier(ChatResponses[trait][index], mood)
    IN  ReplaceFirst(response, "{userName}", userName)

\* isUserInCooldown (lines 324-327)
IsUserInCooldownInclusive(userId, t) ==
    LET lastUse == MapGet(cooldowns, userId, 0)
    IN  IF lastUse # 0 THEN t - lastUse <= cooldownDuration ELSE FALSE
IsUserInCooldown(userId, t) ==
    LET lastUse == MapGet(cooldowns, userId, 0)
    IN  IF lastUse # 0 THEN t - lastUse < cooldownDuration ELSE FALSE

\* handleCommand (lines 333-347) and getStats (lines 349-352)
HandleCommand(content, userName) ==
    CASE content[1] = "!mood" -> <<"Current mood level: ", ToString(moodLevel)>>
      [] content[1] = "!stats" ->
            <<"Stats for ", userName, ":\nInteractions: ",
              ToString(MapGet(memory.longTerm, userName, 0)),
              "\nMood: ", ToString(moodLevel)>>
      [] OTHER -> <<"Unknown command. Try !mood or !stats">>

CallsAllowed(userId) == IF userId = "u1" THEN MaxBurstCalls ELSE MaxOtherRequests

\* The messages analysed so far and those being analysed.
Interactions ==
    Len(memory.shortTerm) + Cardinality({c \in CallIds : chatCalls[c].pc = "analyzed"})

\* handleMessage (lines 208-246) up to its await: the cooldown check, the command
\* branch, and the analysis of the message.
ChatStart ==
    /\ \E c \in CallIds, userId \in Users, content \in ChatContents :
          /\ chatCalls[c].pc = "idle"
          /\ \A d \in CallIds : d < c => chatCalls[d].pc # "idle"
          /\ burstCalls[userId] < CallsAllowed(userId)
          /\ LET ordinal == burstCalls[userId] + 1
             IN  /\ burstCalls' = [burstCalls EXCEPT ![userId] = ordinal]
                 /\ IF IsUserInCooldown(userId, now)
                    THEN /\ lastReply' = NullReply(userId, ordinal)
                         /\ UNCHANGED chatCalls
                    ELSE IF StartsWithPrefix(content)
                    THEN /\ lastReply' = TextReply(userId, ordinal,
                                             HandleCommand(content, UserName[userId]))
                         /\ UNCHANGED chatCalls
                    ELSE /\ Interactions < MaxInteractions
                         /\ chatCalls' = [chatCalls EXCEPT ![c] =
                               [user |-> userId, pc |-> "analyzed", content |-> content,
                                sentiment |-> AnalyzeSentiment(content),
                                topics |-> ExtractTopics(content), ordinal |-> ordinal]]
                         /\ UNCHANGED lastReply
    /\ UNCHANGED <<now, moodLevel, cooldowns, memory, traitLevels, outsideChat>>

\* handleMessage after the await: mood, memory, learning, the response, the cooldown.
ChatFinish ==
    /\ \E c \in CallIds :
          /\ chatCalls[c].pc = "analyzed"
          /\ LET call == chatCalls[c]
                 mood == UpdateMood(moodLevel, call.sentiment)
                 trait == SelectTraitByMood(mood)
             IN  /\ moodLevel' = mood
                 /\ memory' = UpdateMemory(memory, call.content, UserName[call.user])
                 /\ traitLevels' = Learn(traitLevels, call.topics)
                 /\ \E index \in 1..Len(ChatResponses[trait]) :
                       lastReply' = TextReply(call.user, call.ordinal,
                                        GenerateResponse(UserName[call.user], mood, index))
                 /\ cooldowns' = MapSet(cooldowns, call.user, now)
                 /\ chatCalls' = [chatCalls EXCEPT ![c] = IdleChat]
    /\ UNCHANGED <<now, burstCalls, outsideChat>>

\* The clock moves to a later instant.  The continuation of an await on an
\* already settled promise runs before any timer, so no call is in flight then.
ChatTick ==
    /\ \A c \in CallIds : chatCalls[c].pc = "idle"
    /\ \E t \in ChatInstants : t > now /\ now' = t
    /\ burstCalls' = [u \in Users |-> 0]
    /\ UNCHANGED <<moodLevel, cooldowns, memory, traitLevels, chatCalls, lastReply, outsideChat>>

ChatInit == InitAll
ChatNext == ChatStart \/ ChatFinish \/ ChatTick
SpecChat == ChatInit /\ [][ChatNext]_vars

\* C2: the mood level is within [-10, 10] in every reachable state, whatever
\* the number, the order and the sentiment of the messages handled (the mood is
\* kept in tenths).
C2_MoodWithinBounds ==
    /\ moodLevel >= minMoodLevel * 10
    /\ moodLevel <= maxMoodLevel * 10

\* A message of 21 positive words (sentiment 10.5) has been handled and the mood
\* stands at a bound.
C2_MoodClampedAtBound ==
    /\ moodLevel \in {minMoodLevel * 10, maxMoodLevel * 10}
    /\ \E i \in 1..Len(memory.shortTerm) :
          moodLevel + AnalyzeSentiment(memory.shortTerm[i]) \notin
              (minMoodLevel * 10)..(maxMoodLevel * 10)

\* The reply handleMessage of part_002 (line 340) gives to a throttled user.
ThrottlingNotice == <<"You're sending messages too quickly. Please wait a moment.">>

\* C3: of the 6 messages one user sends within 10 seconds (here at one instant),
\* the first 5 calls are not answered by the throttling notice and the 6th call is.
C3_SixthCallThrottled ==
    /\ lastReply.kind # "none" /\ lastReply.ordinal <= CounterLimit
          => ~(lastReply.kind = "text" /\ lastReply.text = ThrottlingNotice)
    /\ lastReply.kind # "none" /\ lastReply.ordinal = CounterLimit + 1
          => lastReply.kind = "text" /\ lastReply.text = ThrottlingNotice

\* C4: every call of handleMessage returns a textual reply, neither null nor empty.
C4_EveryReplyIsText ==
    lastReply.kind # "none" => lastReply.kind = "text" /\ lastReply.text # <<>>

\* ============ validation, analysis and response (part_002) ================
\* content: z.string().min(1).max(2000)
MessageMaxLength == 2000
\* CONFIG.MAX_RESPONSE_ATTEMPTS
MAX_RESPONSE_ATTEMPTS == 3

GreatAndAwesome == <<"this", "is", "great", "and", "awesome">>

\* String.length of a word.
WordLength(word) ==
    CASE word \in {"is"} -> 2
      [] word \in {"and"} -> 3
      [] word \in {"this", "nice", "code"} -> 4
      [] word \in {"great"} -> 5
      [] word \in {"awesome"} -> 7

\* String.length of a content: its words with a space between two of them, then
\* the filler characters.
RECURSIVE WordsLength(_)
WordsLength(words) ==
    IF words = <<>> THEN 0
    ELSE WordLength(Head(words)) + (IF Len(words) > 1 THEN 1 ELSE 0) + WordsLength(Tail(words))
ContentLength(content) == WordsLength(content.words) + content.pad

Filler(n) == [words |-> <<>>, pad |-> n]
GreatContent == [words |-> GreatAndAwesome, pad |-> 0]
RoastContents == {EmptyContent, GreatContent, Filler(MessageMaxLength),
                  Filler(MessageMaxLength + 1)}

\* calculateSentiment (part_004 lines 183-197): 0.2 for each positive word, -0.2
\* for each negative one, the sum kept within [-1, 1].
LexiconPositive == {"good", "great", "awesome", "excellent", "perfect", "thanks"}
LexiconNegative == {"bad", "terrible", "awful", "horrible", "wrong", "stupid"}
RECURSIVE SumSentiment(_)
SumSentiment(words) ==
    IF words = <<>> THEN 0
    ELSE (IF Head(words) \in LexiconPositive THEN 2 ELSE 0)
         - (IF Head(words) \in LexiconNegative THEN 2 ELSE 0)
         + SumSentiment(Tail(words))
CalculateSentiment(words) == Max(Min(SumSentiment(words), 10), -10)

\* MessageSchema.parse(message) succeeds (part_002 lines 4-10).
ValidMessageNoMaximum(content) == ContentLength(content) >= 1
ValidMessage(content) ==
    /\ ContentLength(content) >= 1
    /\ ContentLength(content) <= MessageMaxLength

\* The replies of handleMessage that are fixed texts.
ErrorReply == <<"Error processing message. But hey, at least it's not as bad as using PHP!">>

\* PERSONALITY_TRAITS (part_002 lines 89-124).  An absent condition is the empty set.
RoastTraitNames == <<"sarcastic", "technical", "encouraging">>
RoastConditions ==
    [sarcastic   |-> [minSentiment |-> {-5}, maxSentiment |-> {5}],
     technical   |-> [minSentiment |-> {}, maxSentiment |-> {}],
     encouraging |-> [minSentiment |-> {3}, maxSentiment |-> {}]]
RoastResponses ==
    [sarcastic |->
        << <<"Oh wow, ", "{userName}",
             ", that code is *just perfect*... if you're trying to crash the server">>,
           <<"Interesting approach to ", "{topic}",
             "... if by interesting you mean completely chaotic">>,
           <<"Have you considered a career in modern art? Because this code is quite abstract">> >>,
     technical |->
        << <<"Your ", "{language}",
             " implementation could use some design pattern love. Ever heard of ",
             "{pattern}", "?">>,
           <<"Let's talk about that O(n^2) complexity. I'm sure the server enjoys taking naps.">>,
           <<"Interesting use of nested callbacks. Have you met our lord and savior, async/await?">> >>,
     encouraging |->
        << <<"Not bad! But let's make it even better by ", "{improvement}">>,
           <<"You're on the right track with ", "{concept}", ". Just needs a little tweaking.">>,
           <<"I see what you're trying to do! Here's a pro tip: ", "{tip}">> >>]

\* The pieces of a text that are placeholders of a template.
Placeholders == {"{userName}", "{topic}", "{language}", "{pattern}", "{improvement}",
                 "{concept}", "{tip}"}

\* value || fallback, for an optional value held as a set of at most one element
\* (the fallback of a number is 0, so that a present 0 gives the same result).
OrElse(optional, fallback) ==
    IF optional = {} THEN fallback ELSE CHOOSE x \in optional : TRUE

\* !trait.conditions?.minSentiment || analysis.sentiment >= trait.conditions.minSentiment, and
\* the same for maxSentiment.
TraitMatchesMinimumOnly(name, sentiment) ==
    LET conditions == RoastConditions[name]
    IN  \/ conditions.minSentiment \in {{}, {0}}
        \/ \A bound \in conditions.minSentiment : sentiment >= bound
TraitMatches(name, sentiment) ==
    LET conditions == RoastConditions[name]
    IN  /\ \/ conditions.minSentiment \in {{}, {0}}
           \/ \A bound \in conditions.minSentiment : sentiment >= bound
        /\ \/ conditions.maxSentiment \in {{}, {0}}
           \/ \A bound \in conditions.maxSentiment : sentiment <= bound

\* selectPersonalityTrait (part_002 lines 305-310): find(...) || personality[0]
SelectLastMatchingTrait(sentiment) ==
    IF \E i \in 1..Len(RoastTraitNames) : TraitMatches(RoastTraitNames[i], sentiment)
    THEN LET last == CHOOSE i \in 1..Len(RoastTraitNames) :
                         /\ TraitMatches(RoastTraitNames[i], sentiment)
                         /\ \A j \in (i + 1)..Len(RoastTraitNames) :
                               ~TraitMatches(RoastTraitNames[j], sentiment)
         IN  RoastTraitNames[last]
    ELSE RoastTraitNames[1]
SelectPersonalityTrait(sentiment) ==
    IF \E i \in 1..Len(RoastTraitNames) : TraitMatches(RoastTraitNames[i], sentiment)
    THEN LET first == CHOOSE i \in 1..Len(RoastTraitNames) :
                          /\ TraitMatches(RoastTraitNames[i], sentiment)
                          /\ \A j \in 1..(i - 1) : ~TraitMatches(RoastTraitNames[j], sentiment)
         IN  RoastTraitNames[first]
    ELSE RoastTraitNames[1]

\* String.trim(): the white space at both ends goes.
RECURSIVE TrimStart(_)
TrimStart(text) ==
    IF text # <<>> /\ Head(text) = " " THEN TrimStart(Tail(text)) ELSE text
RECURSIVE TrimEnd(_)
TrimEnd(text) ==
    IF text # <<>> /\ text[Len(text)] = " " THEN TrimEnd(SubSeq(text, 1, Len(text) - 1)) ELSE text
Trim(text) == TrimEnd(TrimStart(text))

\* processResponse (part_002 lines 322-327)
ProcessResponse(response, userName) ==
    Trim(ReplaceFirst(ReplaceFirst(response, "{userName}", userName), "{topic}", "coding"))

\* getFallbackResponse (part_002 lines 329-333)
GetFallbackResponse(personality) ==
    ReplaceFirst(ReplaceFirst(RoastResponses[personality][1], "{userName}", "developer"),
                 "{topic}", "coding")

\* What the backend answers to the analysis request: a failure, or a JSON text
\* whose fields may be absent.
AnalysisJsons ==
    {[sentiment |-> {}, topics |-> {}],
     [sentiment |-> {CalculateSentiment(GreatAndAwesome)}, topics |-> {<<"code">>}],
     [sentiment |-> {9}, topics |-> {}]}
AnalysisOutcomes ==
    {[kind |-> "error", json |-> [sentiment |-> {}, topics |-> {}]]}
        \cup {[kind |-> "ok", json |-> json] : json \in AnalysisJsons}

\* analyzeMessage (part_002 lines 236-265) once the backend has answered.
AnalyzeMessage(outcome) ==
    IF outcome.kind = "ok"
    THEN [sentiment |-> OrElse(outcome.json.sentiment, 0),
          topics |-> OrElse(outcome.json.topics, <<>>)]
    ELSE FallbackAnalysis

\* What the backend answers to the generation request: a text (none when
\* message.content is null), or a failure with status 429 or another one.
GenerationOutcomes ==
    {[kind |-> "ok", text |-> <<" ", "Nice ", "{topic}", ", ", "{userName}", " ">>],
     [kind |-> "ok", text |-> <<>>],
     [kind |-> "429", text |-> <<>>],
     [kind |-> "error", text |-> <<>>]}

\* generateResponse (part_002 lines 280-303) once the backend has answered.
GenerateRoast(outcome, personality, userName) ==
    IF outcome.kind = "ok"
    THEN ProcessResponse(outcome.text, userName)
    ELSE GetFallbackResponse(personality)

\* updateMetrics (part_002 lines 356-371): the topic frequencies.
RECURSIVE CountTopics(_, _)
CountTopics(counts, topics) ==
    IF topics = <<>> THEN counts
    ELSE CountTopics(MapSet(counts, Head(topics), MapGet(counts, Head(topics), 0) + 1),
                     Tail(topics))
UpdateMetricsWithoutUser(m, userId, analysis) ==
    [totalInteractions |-> m.totalInteractions + 1,
     activeUsers |-> m.activeUsers,
     mostCommonTopics |-> CountTopics(m.mostCommonTopics, analysis.topics)]
UpdateMetrics(m, userId, analysis) ==
    [totalInteractions |-> m.totalInteractions + 1,
     activeUsers |-> m.activeUsers \cup {userId},
     mostCommonTopics |-> CountTopics(m.mostCommonTopics, analysis.topics)]

\* The value a call returns, with the history of the call.
Returned(call, outcome, reply) ==
    [user |-> call.user, outcome |-> outcome, content |-> call.content,
     analysed |-> call.analysed, analysis |-> call.analysis, trait |-> call.trait,
     generated |-> call.generated, response |-> call.response,
     backendCalls |-> call.backendCalls, generateCalls |-> call.generateCalls,
     reply |-> reply, maintenance |-> "none"]

\* The valid messages handled so far and those being handled.
MessagesStarted ==
    metrics.totalInteractions
        + Cardinality({c \in CallIds : roastCalls[c].pc \in {"analyzing", "generating"}})

\* The instants the clock takes: the start, and the end of the window of a request
\* made then.
RoastInstants == {StartTime, StartTime + RATE_LIMIT_WINDOW}

\* handleMessage (part_002 lines 335-354) up to its first pending await: the
\* validation and the rate-limit check.
RoastStartWithin(budget) ==
    /\ \E c \in CallIds, userId \in Users, content \in RoastContents :
          /\ roastCalls[c].pc = "idle"
          /\ \A d \in CallIds : d < c => roastCalls[d].pc # "idle"
          /\ LET call == [IdleRoast EXCEPT !.user = userId, !.content = content,
                                           !.startedOpen = connected]
                 recentRequests == RecentRequests(MapGet(rateLimits, userId, <<>>), now)
             IN  IF ~ValidMessage(content)
                 THEN /\ roastLog' = Returned(call, "invalid", ErrorReply)
                      /\ UNCHANGED <<roastCalls, rateLimits, lastCheck, admitted>>
                 ELSE /\ MessagesStarted < budget
                      /\ CheckRateLimit(userId)
                      /\ IF OverLimit(recentRequests)
                         THEN /\ roastLog' = Returned(call, "throttled", ThrottlingNotice)
                              /\ UNCHANGED roastCalls
                         ELSE /\ roastCalls' = [roastCalls EXCEPT ![c] =
                                                   [call EXCEPT !.pc = "analyzing"]]
                              /\ roastLog' = NoRoast
    /\ UNCHANGED <<now, metrics, connected, outsideRoast>>

\* handleMessage is called, for at most MaxMessages valid messages in a run.
RoastStart == RoastStartWithin(MaxMessages)

\* The backend answers the analysis request; generateResponse selects the
\* personality and sends the generation request.
RoastAnalyze ==
    /\ \E c \in CallIds, outcome \in AnalysisOutcomes :
          /\ roastCalls[c].pc = "analyzing"
          /\ LET analysis == AnalyzeMessage(outcome)
             IN  roastCalls' = [roastCalls EXCEPT ![c] =
                    [@ EXCEPT !.pc = "generating",
                              !.analysed = outcome.kind,
                              !.analysis = analysis,
                              !.trait = SelectPersonalityTrait(analysis.sentiment),
                              !.backendCalls = @ + 1]]
    /\ roastLog' = NoRoast
    /\ UNCHANGED <<now, limitVars, windowVars, metrics, connected, outsideRoast>>

\* The backend answers the generation request; updateMetrics counts the
\* interaction and writes the metrics to storage.
RoastGenerate ==
    /\ \E c \in CallIds, outcome \in GenerationOutcomes :
          /\ roastCalls[c].pc = "generating"
          /\ LET call == roastCalls[c]
             IN  /\ roastCalls' = [roastCalls EXCEPT ![c] =
                       [@ EXCEPT !.pc = "metrics",
                                 !.generated = outcome.kind,
                                 !.response = GenerateRoast(outcome, call.trait,
                                                            UserName[call.user]),
                                 !.backendCalls = @ + 1,
                                 !.generateCalls = @ + 1]]
                 /\ metrics' = UpdateMetrics(metrics, call.user, call.analysis)
    /\ roastLog' = NoRoast
    /\ UNCHANGED <<now, limitVars, windowVars, connected, outsideRoast>>

\* redis.hset answers or fails (it fails on a connection that was quit), and
\* handleMessage returns.
RoastFinish ==
    /\ \E c \in CallIds, stored \in BOOLEAN :
          /\ roastCalls[c].pc = "metrics"
          /\ stored => connected
          /\ roastLog' = IF stored
                         THEN Returned(roastCalls[c], "replied", roastCalls[c].response)
                         ELSE Returned(roastCalls[c], "failed", ErrorReply)
          /\ roastCalls' = [roastCalls EXCEPT ![c] = IdleRoast]
    /\ UNCHANGED <<now, limitVars, windowVars, metrics, connected, outsideRoast>>

\* The end of a performMaintenance run whose awaited aggregateMetrics() resolved
\* or rejected. try/catch (lines 381, 398-400): the error is logged, the promise
\* of the run resolves and the timer stays as it was. With no catch the promise
\* given to the timer would reject with no handler, which ends the process and
\* its timer.
MaintenanceEndUncaught(rejected, timerSet) ==
    [maintenance |-> IF rejected THEN "error thrown" ELSE "done",
     timerSet |-> timerSet /\ ~rejected]
MaintenanceEnd(rejected, timerSet) ==
    [maintenance |-> IF rejected THEN "error logged" ELSE "done",
     timerSet |-> timerSet]

\* performMaintenance() of the hourly timer, which runs until cleanup() clears
\* it: the windows are pruned, then aggregateMetrics() (lines 403-406, the place
\* of the storage operations of the aggregation) is awaited.
RoastMaintenance ==
    /\ connected
    /\ rateLimits' = MaintainAll(rateLimits, DOMAIN rateLimits, now)
    /\ \E rejected \in BOOLEAN :
          LET end == MaintenanceEnd(rejected, connected)
          IN  /\ roastLog' = [NoRoast EXCEPT !.maintenance = end.maintenance]
              /\ connected' = end.timerSet
    /\ UNCHANGED <<now, limitVars, roastCalls, metrics, outsideRoast>>

\* The clock moves to a later instant; the history keeps the trailing window.
RoastTick ==
    /\ \E t \in RoastInstants :
          /\ t > now
          /\ now' = t
          /\ admitted' = [u \in Users |-> RecentRequests(admitted[u], t)]
    /\ roastLog' = NoRoast
    /\ UNCHANGED <<rateLimits, lastCheck, roastCalls, metrics, connected, outsideRoast>>

\* disconnect() (lines 413-415) and cleanup() (lines 212-216): the maintenance
\* timer is cleared and the storage connection is quit. Nothing else changes:
\* the bot keeps no record of having been disconnected.
RoastDisconnect ==
    /\ connected
    /\ connected' = FALSE
    /\ roastLog' = NoRoast
    /\ UNCHANGED <<now, limitVars, windowVars, roastCalls, metrics, outsideRoast>>

RoastInit == InitAll
RoastNext ==
    \/ RoastStart
    \/ RoastAnalyze
    \/ RoastGenerate
    \/ RoastFinish
    \/ RoastMaintenance
    \/ RoastTick
SpecRoast == RoastInit /\ [][RoastNext]_vars

\* One user sends one message after the other, each once the one before was
\* answered, until one more than the window admits has been sent.
BurstStart ==
    /\ RoastStartWithin(MAX_REQUESTS_PER_MINUTE + 1)
    /\ roastLog'.user \in {"", "u1"}
    /\ \A c \in CallIds :
          /\ roastCalls'[c].user \in {"", "u1"}
          /\ roastCalls'[c].content # Filler(MessageMaxLength)
          /\ c # 1 => roastCalls'[c].pc = "idle"

\* The backend gives the same analysis for every message of the burst.
BurstAnalyze ==
    /\ RoastAnalyze
    /\ \A c \in CallIds :
          roastCalls'[c].pc = "generating" =>
             /\ roastCalls'[c].analysed = "ok"
             /\ roastCalls'[c].analysis.sentiment = CalculateSentiment(GreatAndAwesome)

ThrottleNext ==
    \/ BurstStart
    \/ BurstAnalyze
    \/ RoastGenerate
    \/ RoastFinish
    \/ RoastMaintenance
    \/ RoastTick
SpecThrottle == RoastInit /\ [][ThrottleNext]_vars

\* The session of part_002: messages are handled, and disconnect() may be called.
SessionNext ==
    \/ RoastStart
    \/ RoastAnalyze
    \/ RoastGenerate
    \/ RoastFinish
    \/ RoastMaintenance
    \/ RoastTick
    \/ RoastDisconnect
SpecSession == RoastInit /\ [][SessionNext]_vars

\* C5: when the generation request to the backend fails, the response is one of
\* the templates of the selected trait with every placeholder substituted (in a
\* call whose storage write succeeds, so that the response is what it returns).
C5_FallbackIsSubstitutedTemplate ==
    roastLog.generated \in {"429", "error"} /\ roastLog.outcome = "replied" =>
        \E k \in 1..Len(RoastResponses[roastLog.trait]) :
            LET template == RoastResponses[roastLog.trait][k]
            IN  /\ Len(roastLog.response) = Len(template)
                /\ \A i \in 1..Len(template) :
                      /\ roastLog.response[i] \notin Placeholders
                      /\ template[i] \notin Placeholders => roastLog.response[i] = template[i]

\* C6: a generation request that fails with status 429 is retried, and the local
\* fallback is returned only when MAX_RESPONSE_ATTEMPTS requests have failed.
C6_FallbackOnlyAfterRetries ==
    roastLog.generated = "429" /\ roastLog.outcome = "replied"
        => roastLog.generateCalls = MAX_RESPONSE_ATTEMPTS

\* C8: the reply to a message with empty content contains 'empty message', and
\* the reply to a message of 2000 characters contains 'too long'.
C8_RejectionNamesReason ==
    /\ roastLog.outcome # "none" /\ ContentLength(roastLog.content) = 0
          => TextIncludes(roastLog.reply, "empty message")
    /\ roastLog.outcome # "none" /\ ContentLength(roastLog.content) = MessageMaxLength
          => TextIncludes(roastLog.reply, "too long")

\* C9: for "this is great and awesome" the lexical analyzer reports a sentiment
\* above 0, and the trait selected for a message analysed with that sentiment is
\* of the wit/encouraging family, not the sarcastic one.
C9_PositiveMessageNotSarcastic ==
    /\ CalculateSentiment(GreatAndAwesome) > 0
    /\ /\ roastLog.content = GreatContent
       /\ roastLog.analysed = "ok"
       /\ roastLog.analysis.sentiment = CalculateSentiment(GreatAndAwesome)
       => roastLog.trait \in {"wit", "encouraging"}

\* ============ validation, response and history (roastbot2.ts) =============
\* content: z.string().min(1).max(1000)
AssistantMaxLength == 1000
\* history.slice(0, 3)
ContextSize == 3
\* this.redis.ltrim(key, 0, 9)
HistoryLastIndex == 9

AssistantContents == {EmptyContent, Filler(1), Filler(AssistantMaxLength),
                      Filler(AssistantMaxLength + 1), Filler(MessageMaxLength),
                      Filler(MessageMaxLength + 1)}

\* MessageSchema.parse(message) succeeds (roastbot2.ts lines 9-13).
ValidAssistantMessage(content) ==
    /\ ContentLength(content) >= 1
    /\ ContentLength(content) <= AssistantMaxLength

\* The replies of handleMessage and generateResponse that are fixed texts.
InvalidFormatReply == <<"Invalid message format">>
NoResponseReply == <<"No response generated">>
BackendErrorReply == <<"Sorry, I encountered an error processing your message.">>

\* The instants the clock takes.
AssistantInstants == {StartTime, StartTime + 1}

\* What the backend answers: a text (none when message.content is null), or a failure.
AssistantOutcomes ==
    {[kind |-> "ok", text |-> <<"Happy to help">>],
     [kind |-> "ok", text |-> <<>>],
     [kind |-> "error", text |-> <<>>]}

\* history.slice(0, 3).map(h => `User: ${h.input}\nAI: ${h.response}`)
RecentContextOldest(entries) ==
    LET recent == SubSeq(entries, Max(1, Len(entries) - ContextSize + 1), Len(entries))
    IN  [i \in 1..Len(recent) |-> <<"User: ", recent[i].input, "\nAI: ", recent[i].response>>]
RecentContext(entries) ==
    LET recent == SubSeq(entries, 1, Min(ContextSize, Len(entries)))
    IN  [i \in 1..Len(recent) |-> <<"User: ", recent[i].input, "\nAI: ", recent[i].response>>]

\* generateResponse (roastbot2.ts lines 92-117) once the backend has answered.
GenerateAssistant(outcome) ==
    IF outcome.kind = "ok"
    THEN (IF outcome.text = <<>> THEN NoResponseReply ELSE outcome.text)
    ELSE BackendErrorReply

\* redis.ltrim(key, 0, 9)
TrimHistory(entries) == SubSeq(entries, 1, Min(HistoryLastIndex + 1, Len(entries)))

AssistantReturned(call, outcome, reply) ==
    [user |-> call.user, outcome |-> outcome, content |-> call.content,
     context |-> call.context, generated |-> call.generated, reply |-> reply]

\* The valid messages whose exchange is stored or that are being handled.
AssistantStarted ==
    Len(history["u1"]) + Len(history["u2"])
        + Cardinality({c \in CallIds : assistCalls[c].pc \in {"lrange", "create", "lpush"}})

\* handleMessage (roastbot2.ts lines 46-74) up to its first await: the validation,
\* then generateResponse asks storage for the history.
AssistantStartWithin(budget) ==
    /\ \E c \in CallIds, userId \in Users, content \in AssistantContents :
          /\ assistCalls[c].pc = "idle"
          /\ \A d \in CallIds : d < c => assistCalls[d].pc # "idle"
          /\ LET call == [IdleAssist EXCEPT !.user = userId, !.content = content]
             IN  IF ~ValidAssistantMessage(content)
                 THEN /\ assistLog' = AssistantReturned(call, "invalid", InvalidFormatReply)
                      /\ UNCHANGED assistCalls
                 ELSE /\ AssistantStarted < budget
                      /\ assistCalls' = [assistCalls EXCEPT ![c] =
                                            [call EXCEPT !.pc = "lrange"]]
                      /\ assistLog' = NoAssist
    /\ UNCHANGED <<now, history, outsideAssistant>>

\* handleMessage is called, for at most MaxMessages valid messages in a run.
AssistantStart == AssistantStartWithin(MaxMessages)

\* getHistory (lines 132-141): redis.lrange answers or fails; generateResponse
\* builds the context and sends the request to the backend.
AssistantHistory ==
    /\ \E c \in CallIds, read \in BOOLEAN :
          /\ assistCalls[c].pc = "lrange"
          /\ assistCalls' = [assistCalls EXCEPT ![c] =
                [@ EXCEPT !.pc = "create",
                          !.historyRead = IF read THEN "ok" ELSE "error",
                          !.context = IF read
                                      THEN RecentContext(history[assistCalls[c].user])
                                      ELSE <<>>]]
    /\ assistLog' = NoAssist
    /\ UNCHANGED <<now, history, outsideAssistant>>

\* The backend answers; updateHistory (lines 119-130) sends the exchange to storage.
AssistantCreate ==
    /\ \E c \in CallIds, outcome \in AssistantOutcomes :
          /\ assistCalls[c].pc = "create"
          /\ assistCalls' = [assistCalls EXCEPT ![c] =
                [@ EXCEPT !.pc = "lpush",
                          !.generated = outcome.kind,
                          !.response = GenerateAssistant(outcome)]]
    /\ assistLog' = NoAssist
    /\ UNCHANGED <<now, history, outsideAssistant>>

\* redis.lpush answers, and ltrim is sent; or it fails, and handleMessage returns.
AssistantPush ==
    /\ \E c \in CallIds, pushed \in BOOLEAN :
          /\ assistCalls[c].pc = "lpush"
          /\ LET call == assistCalls[c]
                 entry == [input |-> call.content, response |-> call.response,
                           timestamp |-> now]
             IN  IF pushed
                 THEN /\ history' = [history EXCEPT ![call.user] = <<entry>> \o @]
                      /\ assistCalls' = [assistCalls EXCEPT ![c].pc = "ltrim"]
                      /\ assistLog' = NoAssist
                 ELSE /\ assistLog' = AssistantReturned(call, "replied", call.response)
                      /\ assistCalls' = [assistCalls EXCEPT ![c] = IdleAssist]
                      /\ UNCHANGED history
    /\ UNCHANGED <<now, outsideAssistant>>

\* redis.ltrim answers or fails, and handleMessage returns.
AssistantTrim ==
    /\ \E c \in CallIds, trimmed \in BOOLEAN :
          /\ assistCalls[c].pc = "ltrim"
          /\ LET call == assistCalls[c]
             IN  /\ history' = IF trimmed
                               THEN [history EXCEPT ![call.user] = TrimHistory(@)]
                               ELSE history
                 /\ assistLog' = AssistantReturned(call, "replied", call.response)
                 /\ assistCalls' = [assistCalls EXCEPT ![c] = IdleAssist]
    /\ UNCHANGED <<now, outsideAssistant>>

AssistantTick ==
    /\ \E t \in AssistantInstants : t > now /\ now' = t
    /\ assistLog' = NoAssist
    /\ UNCHANGED <<history, assistCalls, outsideAssistant>>

AssistantInit == InitAll
AssistantNext ==
    \/ AssistantStart
    \/ AssistantHistory
    \/ AssistantCreate
    \/ AssistantPush
    \/ AssistantTrim
    \/ AssistantTick
SpecAssistant == AssistantInit /\ [][AssistantNext]_vars

\* One user sends one-character messages, each once the one before was
\* answered, until the stored history has been filled and two more were sent;
\* the other user sends at most MaxOtherRequests longer messages in between.
\* All the messages are valid.
LongStart ==
    /\ AssistantStartWithin(HistoryLastIndex + 3)
    /\ assistLog' = NoAssist
    /\ \A c \in CallIds :
          /\ assistCalls'[c].user = "u1" => assistCalls'[c].content = Filler(1)
          /\ assistCalls'[c].user = "u2" =>
                /\ assistCalls'[c].content = Filler(AssistantMaxLength)
                /\ Len(history["u2"]) < MaxOtherRequests
          /\ c # 1 => assistCalls'[c].pc = "idle"

\* The backend answers every message: the first ones of a user with a text or
\* with none, the later ones with a text.
LongCreate ==
    /\ AssistantCreate
    /\ \A c \in CallIds :
          assistCalls'[c].pc = "lpush" =>
             /\ assistCalls'[c].generated = "ok"
             /\ Len(history[assistCalls'[c].user]) > ContextSize
                   => assistCalls'[c].response # NoResponseReply

HistoryNext ==
    \/ LongStart
    \/ AssistantHistory
    \/ LongCreate
    \/ AssistantPush
    \/ AssistantTrim
    \/ AssistantTick
SpecHistory == AssistantInit /\ [][HistoryNext]_vars

\* C7: a message is rejected for its length only when its content is empty or
\* longer than 2000 characters: content of 1 to 2000 characters enters the
\* pipeline, content of 2001 characters is rejected.
C7_LengthUpTo2000Accepted ==
    assistLog.outcome # "none" =>
        /\ ContentLength(assistLog.content) \in 1..MessageMaxLength
              => assistLog.outcome # "invalid"
        /\ ContentLength(assistLog.content) > MessageMaxLength
              => assistLog.outcome = "invalid"

\* ============ trait selection for every mood and every sentiment =========
\* The sentiments of an analysis reach from -SentimentSpan to SentimentSpan tenths.
SentimentSpan == 12
SentimentValues == (-SentimentSpan)..SentimentSpan
\* The values of state.moodLevel, in tenths.
MoodValues == (minMoodLevel * 10)..(maxMoodLevel * 10)

\* index.ts: selectPersonalityTrait(analysis) with this.state.moodLevel = mood.
SelectForMood ==
    /\ \E mood \in MoodValues :
          selection' = [by |-> "mood", input |-> mood, trait |-> SelectTraitByMood(mood)]
    /\ UNCHANGED outsideSelect

\* part_002: selectPersonalityTrait(analysis) with analysis.sentiment = sentiment.
SelectForSentiment ==
    /\ \E sentiment \in SentimentValues :
          selection' = [by |-> "sentiment", input |-> sentiment,
                        trait |-> SelectPersonalityTrait(sentiment)]
    /\ UNCHANGED outsideSelect

\* index.ts: generateResponse(message, analysis) with this.state.moodLevel = mood
\* and the template getRandomResponse drew.
RespondForMood ==
    /\ \E mood \in MoodValues :
          \E index \in 1..Len(ChatResponses[SelectTraitByMood(mood)]) :
             selection' = [by |-> "response", input |-> mood,
                           trait |-> SelectTraitByMood(mood), index |-> index,
                           text |-> GenerateResponse(UserName["u1"], mood, index)]
    /\ UNCHANGED outsideSelect

SelectInit == InitAll
SelectNext ==
    \/ SelectForMood
    \/ SelectForSentiment
    \/ RespondForMood
SpecSelect == SelectInit /\ [][SelectNext]_vars

\* ================= the sentiment of every short text ======================
\* The texts have at most MaxWords words, each a positive word, a negative word
\* or a word of neither list.
MaxWords == 6
SentimentWords == {"great", "awful", "code"}
Texts == UNION {[1..n -> SentimentWords] : n \in 0..MaxWords}

\* index.ts: analyzeSentiment(content)
SentimentAnalyzed ==
    /\ \E text \in Texts :
          selection' = [by |-> "analyzeSentiment", input |-> AnalyzeSentiment(text),
                        trait |-> "", text |-> text]
    /\ UNCHANGED outsideSelect

\* part_004: calculateSentiment(text)
SentimentCalculated ==
    /\ \E text \in Texts :
          selection' = [by |-> "calculateSentiment", input |-> CalculateSentiment(text),
                        trait |-> "", text |-> text]
    /\ UNCHANGED outsideSelect

SentimentNext ==
    \/ SentimentAnalyzed
    \/ SentimentCalculated
SpecSentiment == SelectInit /\ [][SentimentNext]_vars

\* ================== cached and stored profiles (part_004) =================
\* CONFIG.USER_PROFILE_EXPIRY, in seconds
USER_PROFILE_EXPIRY == 86400 * 30
\* CONFIG.DEFAULT_SENSITIVITY_LEVEL, 0.5
DEFAULT_SENSITIVITY_LEVEL == 5
\* witLevel, sarcasmLevel and technicalLevel of a new profile, 0.5
DefaultPreference == 5

\* The instants the clock takes.
ProfileInstants == {StartTime, StartTime + 1, StartTime + 2}
\* Date.now() when a run before this one created a profile.
PreviousRun == StartTime - 1

\* createNewUserProfile (lines 382-403): the profile object.
NewProfile(userId, t) ==
    [userId |-> userId, userName |-> "", sensitivityLevel |-> DEFAULT_SENSITIVITY_LEVEL,
     pastInteractions |-> <<>>, preferredTopics |-> <<>>, lastInteraction |-> t,
     totalInteractions |-> 0, averageSentiment |-> 0,
     responsePreferences |-> [witLevel |-> DefaultPreference,
                              sarcasmLevel |-> DefaultPreference,
                              technicalLevel |-> DefaultPreference]]

\* A profile the UserProfile interface (lines 36-50) admits after some use: a
\* name, topics, an interaction (lines 52-58) and a negative average sentiment.
UsedProfile(userId, t) ==
    [userId |-> userId, userName |-> UserName[userId], sensitivityLevel |-> 7,
     pastInteractions |-> <<[timestamp |-> t, sentiment |-> -12,
                             responseType |-> "sarcasm",
                             messageContent |-> <<"nice", "code">>,
                             botResponse |-> <<"Oh", "wow">>]>>,
     preferredTopics |-> <<"code", "typescript">>, lastInteraction |-> t,
     totalInteractions |-> 120, averageSentiment |-> -3,
     responsePreferences |-> [witLevel |-> 6, sarcasmLevel |-> 0,
                              technicalLevel |-> 10]]

\* The digits of a natural number, and the number the digits stand for.
RECURSIVE Digits(_)
Digits(n) ==
    IF n < 10 THEN <<n>> ELSE Append(Digits(n \div 10), n % 10)
RECURSIVE DigitsValue(_)
DigitsValue(digits) ==
    IF Len(digits) = 1 THEN digits[1]
    ELSE 10 * DigitsValue(SubSeq(digits, 1, Len(digits) - 1)) + digits[Len(digits)]

\* A number as JSON writes it, a sign and digits, and as JSON reads it back.
EncodeNumber(n) ==
    [negative |-> n < 0, digits |-> Digits(IF n < 0 THEN -n ELSE n)]
DecodeNumberUnsigned(text) == DigitsValue(text.digits)
DecodeNumber(text) ==
    IF text.negative THEN -DigitsValue(text.digits) ELSE DigitsValue(text.digits)

\* JSON.stringify and JSON.parse of one InteractionHistory (lines 52-58).
StringifyInteraction(interaction) ==
    [timestamp |-> EncodeNumber(interaction.timestamp),
     sentiment |-> EncodeNumber(interaction.sentiment),
     responseType |-> interaction.responseType,
     messageContent |-> interaction.messageContent,
     botResponse |-> interaction.botResponse]
ParseInteraction(json) ==
    [timestamp |-> DecodeNumber(json.timestamp),
     sentiment |-> DecodeNumber(json.sentiment),
     responseType |-> json.responseType,
     messageContent |-> json.messageContent,
     botResponse |-> json.botResponse]

\* JSON.stringify(profile): every number becomes text.
Stringify(profile) ==
    [userId |-> profile.userId, userName |-> profile.userName,
     sensitivityLevel |-> EncodeNumber(profile.sensitivityLevel),
     pastInteractions |-> [i \in DOMAIN profile.pastInteractions |->
                              StringifyInteraction(profile.pastInteractions[i])],
     preferredTopics |-> profile.preferredTopics,
     lastInteraction |-> EncodeNumber(profile.lastInteraction),
     totalInteractions |-> EncodeNumber(profile.totalInteractions),
     averageSentiment |-> EncodeNumber(profile.averageSentiment),
     responsePreferences |->
        [witLevel |-> EncodeNumber(profile.responsePreferences.witLevel),
         sarcasmLevel |-> EncodeNumber(profile.responsePreferences.sarcasmLevel),
         technicalLevel |-> EncodeNumber(profile.responsePreferences.technicalLevel)]]

\* JSON.parse(storedProfile)
Parse(json) ==
    [userId |-> json.userId, userName |-> json.userName,
     sensitivityLevel |-> DecodeNumber(json.sensitivityLevel),
     pastInteractions |-> [i \in DOMAIN json.pastInteractions |->
                              ParseInteraction(json.pastInteractions[i])],
     preferredTopics |-> json.preferredTopics,
     lastInteraction |-> DecodeNumber(json.lastInteraction),
     totalInteractions |-> DecodeNumber(json.totalInteractions),
     averageSentiment |-> DecodeNumber(json.averageSentiment),
     responsePreferences |->
        [witLevel |-> DecodeNumber(json.responsePreferences.witLevel),
         sarcasmLevel |-> DecodeNumber(json.responsePreferences.sarcasmLevel),
         technicalLevel |-> DecodeNumber(json.responsePreferences.technicalLevel)]]

\* redis.set(key, value, 'EX', seconds): the value and its time to live.
StoredValue(json, seconds) == [json |-> json, expiry |-> seconds]

\* The profiles a run before this one may have written: for each user none, the
\* profile createNewUserProfile made, or a profile after some use.
WrittenAtStart ==
    UNION {[present -> {"new", "used"}] : present \in SUBSET Users}
ProfileAtStart(userId, kind) ==
    IF kind = "new" THEN NewProfile(userId, PreviousRun)
    ELSE UsedProfile(userId, PreviousRun)
\* What storage holds of the written profiles when the bot is constructed.
StoredAtStart(written) ==
    [u \in DOMAIN written |-> StoredValue(Stringify(ProfileAtStart(u, written[u])),
                                          USER_PROFILE_EXPIRY)]

\* this.userProfiles.set(userId, profile)
CacheProfileSkipped(cache, userId, profile) == cache
CacheProfile(cache, userId, profile) == MapSet(cache, userId, profile)

\* A getUserProfile call returns profile.
ProfileReturns(c, userId, path, before, profile) ==
    /\ profileLog' = [user |-> userId, path |-> path, before |-> before,
                      returned |-> {profile}]
    /\ lastProfile' = [lastProfile EXCEPT ![userId] = {profile}]
    /\ profileCalls' = [profileCalls EXCEPT ![c] = IdleProfile]

\* getUserProfile (lines 363-380) up to its await: the cache is consulted, and
\* storage is asked for the profile when the cache has none.
ProfileStart ==
    /\ \E c \in CallIds, userId \in Users :
          /\ profileCalls[c].pc = "idle"
          /\ \A d \in CallIds : d < c => profileCalls[d].pc # "idle"
          /\ IF userId \in DOMAIN userProfiles
             THEN ProfileReturns(c, userId, "cache", lastProfile[userId],
                                 userProfiles[userId])
             ELSE /\ profileCalls' = [profileCalls EXCEPT ![c] =
                        [user |-> userId, pc |-> "get", before |-> lastProfile[userId]]]
                  /\ profileLog' = NoProfile
                  /\ UNCHANGED lastProfile
    /\ UNCHANGED <<now, userProfiles, storedProfiles, writtenProfiles, outsideProfile>>

\* redis.get answers with the stored profile, which is parsed and cached.
ProfileFound ==
    /\ \E c \in CallIds :
          /\ profileCalls[c].pc = "get"
          /\ profileCalls[c].user \in DOMAIN storedProfiles
          /\ LET userId == profileCalls[c].user
                 profile == Parse(storedProfiles[userId].json)
             IN  /\ userProfiles' = CacheProfile(userProfiles, userId, profile)
                 /\ ProfileReturns(c, userId, "stored", profileCalls[c].before, profile)
    /\ UNCHANGED <<now, storedProfiles, writtenProfiles, outsideProfile>>

\* redis.get answers null, or fails: createNewUserProfile (lines 382-403) caches a
\* new profile and sends it to storage without awaiting the write, which may fail.
ProfileCreated ==
    /\ \E c \in CallIds, read \in BOOLEAN, written \in BOOLEAN :
          /\ profileCalls[c].pc = "get"
          /\ read => profileCalls[c].user \notin DOMAIN storedProfiles
          /\ LET userId == profileCalls[c].user
                 profile == NewProfile(userId, now)
             IN  /\ userProfiles' = CacheProfile(userProfiles, userId, profile)
                 /\ storedProfiles' =
                       IF written
                       THEN MapSet(storedProfiles, userId,
                                   StoredValue(Stringify(profile), USER_PROFILE_EXPIRY))
                       ELSE storedProfiles
                 /\ writtenProfiles' =
                       IF written THEN MapSet(writtenProfiles, userId, profile)
                       ELSE writtenProfiles
                 /\ ProfileReturns(c, userId, "created", profileCalls[c].before, profile)
    /\ UNCHANGED <<now, outsideProfile>>

\* The expiry set with a profile (line 400, 'EX') elapses: storage drops a
\* profile that a run before this one wrote.
ProfileExpired ==
    /\ \E userId \in DOMAIN storedProfiles :
          /\ writtenProfiles[userId].lastInteraction < StartTime
          /\ storedProfiles' = MapDelete(storedProfiles, userId)
    /\ profileLog' = NoProfile
    /\ UNCHANGED <<now, userProfiles, profileCalls, lastProfile, writtenProfiles,
                   outsideProfile>>

\* The clock moves to a later instant (the runs are shorter than the expiry of
\* a stored profile).
ProfileTick ==
    /\ \E t \in ProfileInstants : t > now /\ now' = t
    /\ profileLog' = NoProfile
    /\ UNCHANGED <<userProfiles, storedProfiles, profileCalls, lastProfile,
                   writtenProfiles, outsideProfile>>

ProfileInit ==
    /\ InitBot
    /\ \E written \in WrittenAtStart :
          /\ writtenProfiles = [u \in DOMAIN written |-> ProfileAtStart(u, written[u])]
          /\ storedProfiles = StoredAtStart(written)
ProfileNext ==
    \/ ProfileStart
    \/ ProfileFound
    \/ ProfileCreated
    \/ ProfileExpired
    \/ ProfileTick
SpecProfile == ProfileInit /\ [][ProfileNext]_vars

\* C10: a getUserProfile call that starts after an earlier call for the same
\* user has returned gives the profile that earlier call gave, every field
\* equal, lastInteraction included, whatever storage held or answered.
C10_SecondCallReturnsSameProfile ==
    profileLog.before # {} => profileLog.returned = profileLog.before

\* A profile created in this run is returned again by a later call at a later instant.
C10_CreatedProfileReturnedLater ==
    /\ profileLog.before # {}
    /\ \E profile \in profileLog.returned :
          /\ profile.lastInteraction >= StartTime
          /\ profile.lastInteraction < now

C12_NoRateLimitStepAfterDisconnect ==
    [][~connected => rateLimits' = rateLimits]_vars

\* C13: in the storage-counter rate limiter a storage fault fails open: in every
\* step in which the increment or an expire operation of a check fails, that
\* check returns and admits the request (it does not throw).
C13_StorageFaultAdmits ==
    [][faults' > faults => lastCheck'.result = "admit"]_vars

\* C14: rate limits reset after the window: a check of the storage-counter
\* limiter that returns a rejection, while no other check is in flight, does so
\* only when a request of that user was admitted in the trailing 60 seconds;
\* with none, the user is admitted.
C14_RejectedOnlyAfterRecentAdmission ==
    [][(/\ \E c \in CallIds :
              /\ rlCalls[c].pc # "idle"
              /\ rlCalls'[c].pc = "idle"
              /\ \A d \in CallIds \ {c} : rlCalls[d].pc = "idle"
        /\ lastCheck'.result = "reject")
           => admitted'[lastCheck'.user] # <<>>]_vars

\* C15: conversation history is persisted: when handleMessage of roastbot2.ts
\* has returned a reply to a valid message, the list under history:{userId}
\* holds that exchange, the message content and the reply (stated for a reply
\* the backend generated, and for any position of the list, the most recent
\* one included).
C15_RepliedExchangeIsStored ==
    assistLog.outcome = "replied" /\ assistLog.generated = "ok" =>
        \E i \in 1..Len(history[assistLog.user]) :
            /\ history[assistLog.user][i].input = assistLog.content
            /\ history[assistLog.user][i].response = assistLog.reply

\* C16: within the handling of one message the trait is selected first and the
\* mood is updated afterwards: the reply to an analysed message is drawn from
\* the templates of the trait that the mood from before the message's sentiment
\* was added selects.
C16_TraitFromMoodBeforeUpdate ==
    [][\A c \in CallIds :
          chatCalls[c].pc = "analyzed" /\ chatCalls'[c].pc = "idle" =>
             \E k \in 1..Len(ChatResponses[SelectTraitByMood(moodLevel)]) :
                lastReply'.text[1] = ChatResponses[SelectTraitByMood(moodLevel)][k][1]]_vars

\* C17: the mood-coupled trait choice follows the policy table for every mood
\* in [-10, 10]: a mood above 0 selects 'wit' (or 'technical'), a mood of 0 or
\* below selects 'sarcasm'.
C17_TraitFollowsMoodTable ==
    selection.by = "mood" =>
        /\ selection.input > 0 => selection.trait \in {"wit", "technical"}
        /\ selection.input <= 0 => selection.trait = "sarcasm"

\* The selection was made at a mood of exactly 0, and gave 'sarcasm'.
C17_SarcasmAtMoodZero ==
    /\ selection.by = "mood"
    /\ selection.input = 0
    /\ selection.trait = "sarcasm"

C20_ThrottledMessageChangesNothing ==
    [][roastLog'.outcome = "throttled" =>
          /\ roastLog'.reply = ThrottlingNotice
          /\ roastLog'.backendCalls = 0
          /\ roastCalls' = roastCalls
          /\ metrics' = metrics
          /\ rateLimits' = rateLimits
          /\ moodLevel' = moodLevel
          /\ userProfiles' = userProfiles]_vars

\* A message of a user with MAX_REQUESTS_PER_MINUTE requests in the window was
\* answered by the throttling notice.
C20_MessageThrottled ==
    /\ roastLog.outcome = "throttled"
    /\ roastLog.user = "u1"
    /\ Len(rateLimits["u1"]) = MAX_REQUESTS_PER_MINUTE
    /\ metrics.totalInteractions = MAX_REQUESTS_PER_MINUTE

\* C21: an invalid message (empty or oversized content) is rejected before it
\* enters the pipeline of part_002: no call in flight and no throttled call
\* carries such content, and the step that rejects it records no rate-limit
\* timestamp, makes no backend call, leaves no call with a storage write
\* pending, and leaves mood, profiles and metrics unchanged.
C21_InvalidMessageChangesNothing ==
    [][/\ \A c \in CallIds :
             roastCalls'[c].pc # "idle" =>
                ContentLength(roastCalls'[c].content) \in 1..MessageMaxLength
       /\ roastLog'.outcome = "throttled" =>
             ContentLength(roastLog'.content) \in 1..MessageMaxLength
       /\ roastLog'.outcome = "invalid" =>
             /\ ContentLength(roastLog'.content) \notin 1..MessageMaxLength
             /\ roastLog'.backendCalls = 0
             /\ rateLimits' = rateLimits
             /\ roastCalls' = roastCalls
             /\ metrics' = metrics
             /\ moodLevel' = moodLevel
             /\ userProfiles' = userProfiles
             /\ storedProfiles' = storedProfiles]_vars

\* An oversized message was rejected while a valid one of the same user was
\* being handled.
C21_OversizedRejected ==
    /\ roastLog.outcome = "invalid"
    /\ ContentLength(roastLog.content) = MessageMaxLength + 1
    /\ \E c \in CallIds : roastCalls[c].pc # "idle" /\ roastCalls[c].user = roastLog.user

\* C22: in every reachable state no user's stored rate-limit window holds a
\* timestamp that is 60 seconds or more older than the current time.
C22_WindowHoldsNoOldTimestamp ==
    \A u \in DOMAIN rateLimits :
        \A i \in 1..Len(rateLimits[u]) : now - rateLimits[u][i] < RATE_LIMIT_WINDOW

\* C23: every bounded history stays within its cap: while no handleMessage call
\* is in flight, the stored list history:{userId} of roastbot2.ts holds at most
\* 10 entries.
C23_StoredHistoryWithinCap ==
    (\A c \in CallIds : assistCalls[c].pc = "idle") =>
        \A u \in Users : Len(history[u]) <= HistoryLastIndex + 1

\* C24: profile creation is written through: whenever getUserProfile returns a
\* newly created default profile, storage holds that profile under
\* user:{userId} with the 30-day expiry.
C24_CreatedProfileIsStored ==
    profileLog.path = "created" =>
        /\ profileLog.user \in DOMAIN storedProfiles
        /\ profileLog.returned = {Parse(storedProfiles[profileLog.user].json)}
        /\ storedProfiles[profileLog.user].expiry = USER_PROFILE_EXPIRY

\* C25: a cached profile is invalidated on a storage miss: a getUserProfile
\* call for a user whose written profile has expired from storage does not
\* return the cached profile.
C25_ExpiredProfileNotServedFromCache ==
    (/\ profileLog.user \in DOMAIN writtenProfiles
     /\ profileLog.user \notin DOMAIN storedProfiles) =>
        profileLog.path # "cache"

\* C26: the default profile returned when the storage read fails is not
\* written to storage: a getUserProfile call that creates a profile while
\* storage holds one of that user (its read failed) leaves storage as it was.
C26_FallbackProfileNotWritten ==
    [][(/\ profileLog'.path = "created"
        /\ profileLog'.user \in DOMAIN storedProfiles) =>
           storedProfiles' = storedProfiles]_vars

\* C27: two getUserProfile calls for the same absent user that interleave at
\* the storage read create exactly one default profile: a call creates a
\* profile of a user that storage did not hold when the run began only when the
\* cache holds no profile of that user.
C27_OneProfileCreatedForAbsentUser ==
    [][(/\ profileLog'.path = "created"
        /\ \A u \in DOMAIN writtenProfiles \cap {profileLog'.user} :
              writtenProfiles[u].lastInteraction >= StartTime) =>
           profileLog'.user \notin DOMAIN userProfiles]_vars

C29_MaintenancePrunesExactlyStale ==
    [][(rateLimits' # rateLimits /\ admitted' = admitted) =>
          /\ \A u \in Users : MapGet(rateLimits', u, <<>>) = admitted[u]
          /\ \A u \in DOMAIN rateLimits' : Len(rateLimits'[u]) > 0
          /\ \A u \in Users : \A t \in WindowInstants :
                t >= now =>
                   RecentRequests(MapGet(rateLimits', u, <<>>), t)
                      = RecentRequests(MapGet(rateLimits, u, <<>>), t)]_vars

\* Maintenance has removed the window of a user whose only requests are stale.
C29_StaleUserRemoved ==
    /\ lastCheck.user = "u1"
    /\ "u1" \notin DOMAIN rateLimits
    /\ "u2" \in DOMAIN rateLimits
    /\ now >= StartTime + RATE_LIMIT_WINDOW

\* C30: the storage connection is closed only after in-flight writes are
\* flushed: the metrics write of a handleMessage call that started before
\* disconnect() is issued only while the connection is open.
C30_NoWriteIssuedAfterQuit ==
    [][\A c \in CallIds :
          (/\ roastCalls[c].startedOpen
           /\ roastCalls[c].pc # "metrics"
           /\ roastCalls'[c].pc = "metrics") => connected]_vars

\* C31: the sentiment computed by the analyzer is within [-1, 1] for every
\* input text, whatever the number of positive or negative words it contains.
C31_SentimentWithinUnitRange ==
    selection.by \in {"analyzeSentiment", "calculateSentiment"} =>
        selection.input \in -10..10

\* C32: the mood suffix is appended to the reply exactly when the mood is beyond
\* 5 or -5: the positive suffix when mood > 5, the negative one when mood < -5,
\* and for a mood in [-5, 5] the reply is the template with the user's name in
\* it and no suffix.
C32_SuffixExactlyBeyondFive ==
    selection.by = "response" =>
        LET template == ChatResponses[selection.trait][selection.index]
            plain == ReplaceFirst(template, "{userName}", UserName["u1"])
        IN  /\ selection.input > 50 => selection.text = Append(plain, " :D")
            /\ selection.input < -50 => selection.text = Append(plain, " >:(")
            /\ selection.input \in -50..50 => selection.text = plain

\* A reply was generated at a mood of exactly 5 and carries no suffix.
C32_NoSuffixAtFive ==
    /\ selection.by = "response"
    /\ selection.input = 50
    /\ selection.text[Len(selection.text)] \notin {" :D", " >:("}

\* C33: the context given to the backend for a user's message consists of
\* exactly the min(3, n) most recent of the n stored exchanges of that user,
\* most recent first; when the history read fails the context is empty, and the
\* request is sent to the backend all the same.
C33_ContextIsRecentExchangesOfUser ==
    [][\A c \in CallIds :
          (assistCalls[c].pc = "lrange" /\ assistCalls'[c].pc = "create") =>
             LET call == assistCalls'[c]
                 stored == history[call.user]
                 n == Len(stored)
             IN  /\ \A i \in 1..n : \A j \in i..n :
                       stored[i].timestamp >= stored[j].timestamp
                 /\ call.historyRead = "error" => call.context = <<>>
                 /\ call.historyRead = "ok" =>
                       /\ Len(call.context) = Min(ContextSize, n)
                       /\ \A i \in 1..Len(call.context) :
                             call.context[i] = <<"User: ", stored[i].input,
                                                 "\nAI: ", stored[i].response>>]_vars

\* The history of a user holds more than three exchanges with different
\* responses, the other user has one as well, and the context of that user's
\* next message has been built from a history that was read.
C33_ContextOfLongHistory ==
    \E c \in CallIds :
       /\ assistCalls[c].pc = "create"
       /\ assistCalls[c].user = "u1"
       /\ assistCalls[c].historyRead = "ok"
       /\ Len(history["u1"]) > ContextSize
       /\ history["u1"][1].response # history["u1"][ContextSize + 1].response
       /\ Len(history["u2"]) > 0

\* C34: the metrics counters count only handled messages: totalInteractions
\* never decreases; in the step in which the reply of an admitted message has
\* been generated it grows by exactly one and the user of the message joins
\* activeUsers; in every other step, the return of an invalid or a throttled
\* message included, both stay as they were.
C34_CountersCountHandledMessages ==
    [][LET counted == {c \in CallIds : /\ roastCalls[c].pc = "generating"
                                       /\ roastCalls'[c].pc = "metrics"}
       IN  /\ metrics'.totalInteractions >= metrics.totalInteractions
           /\ metrics'.totalInteractions =
                 metrics.totalInteractions + Cardinality(counted)
           /\ metrics'.activeUsers =
                 metrics.activeUsers \cup {roastCalls[c].user : c \in counted}
           /\ Cardinality(counted) <= 1
           /\ roastLog'.outcome \in {"invalid", "throttled"} =>
                 /\ counted = {}
                 /\ metrics' = metrics]_vars

\* A message is throttled after messages of that user were counted.
C34_ThrottledAfterCounted ==
    /\ roastLog.outcome = "throttled"
    /\ metrics.totalInteractions = MAX_REQUESTS_PER_MINUTE
    /\ metrics.activeUsers = {roastLog.user}

\* C35: in the storage-counter rate limiter no counter key remains without
\* expiry: while no check is in flight, every existing ratelimit:{userId} key
\* carries an expiry.
C35_EveryCounterKeyExpires ==
    (\A c \in CallIds : rlCalls[c].pc = "idle") =>
        \A u \in Users : redisCount[u] > 0 => redisExpireAt[u] # 0

C37_ReplySurvivesMetricsFailure ==
    [][\A c \in CallIds :
          (roastCalls[c].pc = "metrics" /\ roastCalls'[c].pc = "idle") =>
             roastLog'.reply = roastCalls[c].response]_vars

\* C38: rate limiting is isolated per user: a step that is not a check of user A
\* and in which no time passes leaves the requests of A that a check counts as
\* they were, and a check of A admits exactly when fewer than
\* MAX_REQUESTS_PER_MINUTE requests of A itself were admitted in the trailing
\* window, whatever the other user has sent.
C38_RateLimitIsolatedPerUser ==
    [][\A u \in Users :
          /\ (now' = now /\ lastCheck'.user # u) =>
                /\ admitted'[u] = admitted[u]
                /\ RecentRequests(MapGet(rateLimits', u, <<>>), now)
                      = RecentRequests(MapGet(rateLimits, u, <<>>), now)
          /\ (/\ now' = now
              /\ lastCheck'.user = u
              /\ (lastCheck' # lastCheck \/ admitted' # admitted)) =>
                lastCheck'.result =
                   IF Len(admitted[u]) >= MAX_REQUESTS_PER_MINUTE
                   THEN "reject" ELSE "admit"]_vars

\* A request of one user is admitted while the other user is at the limit.
C38_AdmittedWhileOtherAtLimit ==
    /\ lastCheck = [user |-> "u2", result |-> "admit"]
    /\ Len(admitted["u1"]) = MAX_REQUESTS_PER_MINUTE
    /\ Len(admitted["u2"]) = 1

====
